---- MODULE Spec2Model ----
(***************************************************************************)
(* A model of multitool.py: the ordinal suffix, the calendar table cells   *)
(* and week rows, the month layout of format_month and the journal entry   *)
(* path of get_entry_path.  Python strings are sequences of one-character  *)
(* strings, so that widths, justification and joins are computed.          *)
(***************************************************************************)
EXTENDS Integers, Sequences, FiniteSets, TLC

VARIABLES
    op,      \* the function of the last call ("init" before any call)
    args,    \* the arguments of the last call
    locals,  \* the local variables of the last call when it ended
    ret,     \* what the last call returned or raised
    stdout,  \* the lines the last call printed
    now,     \* the date datetime.now() returns
    ticks,   \* how many days the clock has advanced
    memo     \* the first format_month call that was kept, to compare calls with

vars == <<op, args, locals, ret, stdout, now, ticks, memo>>

\* ------------------------------------------------------------ bounds
\* The largest n get_ordinal_suffix is called with.
MaxN == 213
\* The number of days the clock may advance.
MaxTicks == 1
\* format_week is called with rows of 7 - LenSlack .. 7 + LenSlack cells.
LenSlack == 1

\* ------------------------------------------------------------ values
None == [t |-> "None", v |-> 0, s |-> <<>>]
PyInt(i) == [t |-> "int", v |-> i, s |-> <<>>]
PyStr(cs) == [t |-> "str", v |-> 0, s |-> cs]

ReturnNone == [kind |-> "None", val |-> <<>>, err |-> ""]
ReturnStr(cs) == [kind |-> "str", val |-> cs, err |-> ""]
Raise(e) == [kind |-> "error", val |-> <<>>, err |-> e]

Digit == <<"0", "1", "2", "3", "4", "5", "6", "7", "8", "9">>

RECURSIVE NatStr(_)
NatStr(i) == IF i < 10 THEN <<Digit[i + 1]>>
             ELSE NatStr(i \div 10) \o <<Digit[(i % 10) + 1]>>

\* str(i) of a Python int
Str(i) == IF i < 0 THEN <<"-">> \o NatStr(0 - i) ELSE NatStr(i)

Spaces(k) == [i \in 1..k |-> " "]

\* s[:k]
Take(s, k) == SubSeq(s, 1, IF Len(s) < k THEN Len(s) ELSE k)

\* "{:>w}".format(s): right-justified, never truncated
RJust(s, w) == IF Len(s) >= w THEN s ELSE Spaces(w - Len(s)) \o s

RECURSIVE Join(_, _)
Join(sep, parts) ==
    IF Len(parts) = 0 THEN <<>>
    ELSE IF Len(parts) = 1 THEN parts[1]
    ELSE parts[1] \o sep \o Join(sep, Tail(parts))

\* ------------------------------------------------------------ get_ordinal_suffix
get_ordinal_suffix_swapped(n) ==
    IF n \in {11, 12, 13} THEN <<"t", "h">>
    ELSE CASE n % 10 = 1 -> <<"s", "t">>
           [] n % 10 = 2 -> <<"r", "d">>
           [] n % 10 = 3 -> <<"n", "d">>
           [] OTHER -> <<"t", "h">>

get_ordinal_suffix(n) ==
    CASE n = 11 -> <<"t", "h">>
      [] n = 12 -> <<"t", "h">>
      [] n = 13 -> <<"t", "h">>
      [] OTHER ->
           CASE n % 10 = 1 -> <<"s", "t">>
             [] n % 10 = 2 -> <<"n", "d">>
             [] n % 10 = 3 -> <<"r", "d">>
             [] OTHER -> <<"t", "h">>

\* ------------------------------------------------------------ format_week
\* The width of the field of " {:>4} ".
FieldWidth == 4

format_date_table_day_narrow(day) ==
    <<" ">> \o RJust(Str(day) \o get_ordinal_suffix(day), FieldWidth - 1) \o <<" ">>

format_date_table_day(day) ==
    LET day_ord == get_ordinal_suffix(day)
    IN <<" ">> \o RJust(Str(day) \o day_ord, FieldWidth) \o <<" ">>

day_formatter(day) ==
    CASE day.t = "int" -> format_date_table_day(day.v)
      [] day.t = "str" -> <<" ">> \o RJust(Take(day.s, 4), 4) \o <<" ">>
      [] OTHER -> <<" ", " ", " ", " ", " ", " ">>

format_week(days) ==
    <<"|">> \o Join(<<"|">>, [i \in 1..Len(days) |-> day_formatter(days[i])]) \o <<"|">>

\* ------------------------------------------------------------ calendar
\* calendar.mdays
mdays == <<31, 28, 31, 30, 31, 30, 31, 31, 30, 31, 30, 31>>

\* datetime._DAYS_BEFORE_MONTH
DaysBeforeMonthTable == <<0, 31, 59, 90, 120, 151, 181, 212, 243, 273, 304, 334>>

isleap(year) == year % 4 = 0 /\ (year % 100 # 0 \/ year % 400 = 0)

days_before_year(year) ==
    LET y == year - 1
    IN y * 365 + (y \div 4) - (y \div 100) + (y \div 400)

days_before_month(year, month) ==
    DaysBeforeMonthTable[month] + (IF month > 2 /\ isleap(year) THEN 1 ELSE 0)

\* date(year, month, day).toordinal(): 1 Jan of year 1 is day 1
ymd2ord(year, month, day) ==
    days_before_year(year) + days_before_month(year, month) + day

\* calendar.weekday: Monday is 0, Sunday is 6
weekday(year, month, day) ==
    LET y == IF 1 <= year /\ year <= 9999 THEN year ELSE 2000 + (year % 400)
    IN (ymd2ord(y, month, day) + 6) % 7

monthrange_unchecked(year, month) ==
    IF month \in 1..12
    THEN [ok |-> TRUE, day1 |-> weekday(year, month, 1),
          ndays |-> mdays[month] + (IF month = 2 /\ isleap(year) THEN 1 ELSE 0)]
    ELSE [ok |-> TRUE, day1 |-> 0, ndays |-> 0]

\* calendar.monthrange: the weekday of the 1st and the number of days, or
\* IllegalMonthError
monthrange(year, month) ==
    IF ~(1 <= month /\ month <= 12)
    THEN [ok |-> FALSE, day1 |-> 0, ndays |-> 0]
    ELSE [ok |-> TRUE, day1 |-> weekday(year, month, 1),
          ndays |-> mdays[month] + (IF month = 2 /\ isleap(year) THEN 1 ELSE 0)]

\* strftime('%B')
MonthName == <<"January", "February", "March", "April", "May", "June", "July",
               "August", "September", "October", "November", "December">>

\* ------------------------------------------------------------ format_month
adjust_weekday_identity(wd) == wd

_adjust_weekday(wd) == (wd + 1) % 7

year_always_now(year, today) == today.year

\* year or datetime.now().year
year_or_now(year, today) == IF year = 0 THEN today.year ELSE year

\* [*([None]*month_start), *range(1, 8-month_start)]
first_week_days(month_start) ==
    [i \in 1..month_start |-> None] \o [i \in 1..(7 - month_start) |-> PyInt(i)]

NoLocals ==
    [year |-> 0, month_start |-> 0, day_count |-> 0, weeks |-> 0, rows |-> <<>>,
     first_week |-> <<>>, next_week_start |-> 0, next_week_end |-> 0]

\* The whole call: the locals at its end, the value returned or the error
\* raised, and the lines printed.
format_month(year, month, today) ==
    LET year1 == year_or_now(year, today)
        mr == monthrange(year1, month)
    IN IF ~mr.ok
       THEN [locals |-> [NoLocals EXCEPT !.year = year1],
             ret |-> Raise("IllegalMonthError"), stdout |-> <<>>]
       ELSE LET day_count == mr.ndays
                month_start == _adjust_weekday(mr.day1)
                weeks == (day_count \div 7) + (IF day_count % 7 # 0 THEN 1 ELSE 0)
                days == first_week_days(month_start)
                first_week == format_week(days)
                next_week_start == 8 - month_start
                next_week_end == next_week_start + 7
            IN [locals |-> [year |-> year1, month_start |-> month_start,
                            day_count |-> day_count, weeks |-> weeks,
                            rows |-> <<days>>, first_week |-> first_week,
                            next_week_start |-> next_week_start,
                            next_week_end |-> next_week_end],
                ret |-> ReturnNone,
                stdout |-> <<Str(next_week_start)>>]

\* ------------------------------------------------------------ get_entry_path
\* date = None
NoDate == [year |-> 0, month |-> 0, day |-> 0]

\* Path(".\\journal\\")
journal_path == ".\\journal\\"

fix_extension(extension) ==
    CASE extension.t = "None" -> <<>>
      [] extension.t = "str" /\ Take(extension.s, 1) # <<".">> -> <<".">> \o extension.s
      [] OTHER -> extension.s

\* The whole call: day_path is built and dropped, the call returns None.
get_entry_path(date, extension, today) ==
    LET date1 == IF date = NoDate THEN today ELSE date
        ord_suffix == get_ordinal_suffix(date1.day)
        file_name == Str(date1.day) \o ord_suffix \o fix_extension(extension)
        day_path == [root |-> journal_path, year |-> Str(date1.year),
                     month |-> MonthName[date1.month], file |-> file_name]
    IN [locals |-> [file_name |-> file_name, day_path |-> day_path],
        ret |-> ReturnNone, stdout |-> <<>>]

\* ------------------------------------------------------------ inputs
\* A row of len cells: lead empty cells, then the days from start up to 31,
\* then empty cells.  Only a row that starts the month has leading empty cells.
WeekRow(lead, start, len) ==
    [i \in 1..len |->
        IF i <= lead \/ start + (i - lead - 1) > 31 THEN None
        ELSE PyInt(start + (i - lead - 1))]

\* Weekday.name of _us_weekday, and Weekday.short of _world_weekday
HeaderRows ==
    { <<PyStr(<<"S","u","n","d","a","y">>), PyStr(<<"M","o","n","d","a","y">>),
        PyStr(<<"T","u","e","s","d","a","y">>), PyStr(<<"W","e","d","n","e","s","d","a","y">>),
        PyStr(<<"T","h","u","r","s","d","a","y">>), PyStr(<<"F","r","i","d","a","y">>),
        PyStr(<<"S","a","t","u","r","d","a","y">>)>>,
      <<PyStr(<<"M","o","n">>), PyStr(<<"T","u","e">>), PyStr(<<"W","e","d">>),
        PyStr(<<"T","h","u">>), PyStr(<<"F","r","i">>), PyStr(<<"S","a","t">>),
        PyStr(<<"S","u","n">>)>> }

WeekInputs ==
    { WeekRow(lead, 1, len) : lead \in 0..6, len \in (7 - LenSlack)..(7 + LenSlack) }
    \cup { WeekRow(0, start, len) : start \in 1..31, len \in (7 - LenSlack)..(7 + LenSlack) }
    \cup HeaderRows

Years == {0, 1900, 2024}

Months == 0..13

Dates ==
    { [year |-> 2023, month |-> 12, day |-> d] : d \in 1..31 }
    \cup { [year |-> 2024, month |-> 2, day |-> 29] }
    \cup { NoDate }

Extensions == { None, PyStr(<<".", "m", "d">>), PyStr(<<"m", "d">>), PyStr(<<>>) }

\* ------------------------------------------------------------ the clock
days_in_month(year, month) ==
    mdays[month] + (IF month = 2 /\ isleap(year) THEN 1 ELSE 0)

NextDay(d) ==
    IF d.day < days_in_month(d.year, d.month) THEN [d EXCEPT !.day = d.day + 1]
    ELSE IF d.month < 12 THEN [d EXCEPT !.month = d.month + 1, !.day = 1]
    ELSE [year |-> d.year + 1, month |-> 1, day |-> 1]

\* ------------------------------------------------------------ state machine
NoMemo == [set |-> FALSE, year |-> 0, month |-> 0, now |-> NoDate,
           ret |-> ReturnNone, stdout |-> <<>>]

Init ==
    /\ op = "init"
    /\ args = <<>>
    /\ locals = <<>>
    /\ ret = ReturnNone
    /\ stdout = <<>>
    /\ now = [year |-> 2023, month |-> 12, day |-> 31]
    /\ ticks = 0
    /\ memo = NoMemo

CallGetOrdinalSuffix ==
    \E n \in 0..MaxN :
        /\ op' = "get_ordinal_suffix"
        /\ args' = [n |-> n]
        /\ locals' = <<>>
        /\ ret' = ReturnStr(get_ordinal_suffix(n))
        /\ stdout' = <<>>
        /\ UNCHANGED <<now, ticks, memo>>

CallFormatWeek ==
    \E days \in WeekInputs :
        /\ op' = "format_week"
        /\ args' = [days |-> days]
        /\ locals' = <<>>
        /\ ret' = ReturnStr(format_week(days))
        /\ stdout' = <<>>
        /\ UNCHANGED <<now, ticks, memo>>

CallFormatMonth ==
    \E year \in Years, month \in Months, keep \in (IF memo.set THEN {FALSE} ELSE BOOLEAN) :
        LET r == format_month(year, month, now)
        IN /\ op' = "format_month"
           /\ args' = [year |-> year, month |-> month]
           /\ locals' = r.locals
           /\ ret' = r.ret
           /\ stdout' = r.stdout
           /\ memo' = IF keep
                      THEN [set |-> TRUE, year |-> year, month |-> month, now |-> now,
                            ret |-> r.ret, stdout |-> r.stdout]
                      ELSE memo
           /\ UNCHANGED <<now, ticks>>

CallGetEntryPath ==
    \E date \in Dates, extension \in Extensions :
        LET r == get_entry_path(date, extension, now)
        IN /\ op' = "get_entry_path"
           /\ args' = [date |-> date, extension |-> extension]
           /\ locals' = r.locals
           /\ ret' = r.ret
           /\ stdout' = r.stdout
           /\ UNCHANGED <<now, ticks, memo>>

\* A day passes: datetime.now() moves on.
Tick ==
    /\ ticks < MaxTicks
    /\ now' = NextDay(now)
    /\ ticks' = ticks + 1
    /\ UNCHANGED <<op, args, locals, ret, stdout, memo>>

\* Calls of the suffix, the week row and the entry path, as the clock moves.
Next ==
    \/ CallGetOrdinalSuffix
    \/ CallFormatWeek
    \/ CallGetEntryPath
    \/ Tick

Spec == Init /\ [][Next]_vars

\* Calls of format_month, as the clock moves.
NextMonth ==
    \/ CallFormatMonth
    \/ Tick

SpecMonth == Init /\ [][NextMonth]_vars

\* ------------------------------------------------------------ what the claims measure
Th == <<"t", "h">>

\* The suffix by the last digit alone.
SuffixByLastDigit(n) ==
    CASE n % 10 = 1 -> <<"s", "t">>
      [] n % 10 = 2 -> <<"n", "d">>
      [] n % 10 = 3 -> <<"r", "d">>
      [] OTHER -> Th

\* The suffixes of the days of a month, written out.
DaySuffix(d) ==
    IF d \in {1, 21, 31} THEN <<"s", "t">>
    ELSE IF d \in {2, 22} THEN <<"n", "d">>
    ELSE IF d \in {3, 23} THEN <<"r", "d">>
    ELSE Th

\* Zeller's congruence for the 1st of a month: 0 is Saturday, 1 is Sunday.
Zeller(year, month) ==
    LET mm == IF month < 3 THEN month + 12 ELSE month
        yy == IF month < 3 THEN year - 1 ELSE year
        K == yy % 100
        J == yy \div 100
    IN (1 + ((13 * (mm + 1)) \div 5) + K + (K \div 4) + (J \div 4) + 5 * J) % 7

MondayFirst(year, month) == (Zeller(year, month) + 5) % 7

SundayFirst(year, month) == (Zeller(year, month) + 6) % 7

\* The Gregorian length of a month.
GregorianDays(year, month) ==
    IF month = 2
    THEN (IF year % 400 = 0 \/ (year % 4 = 0 /\ year % 100 # 0) THEN 29 ELSE 28)
    ELSE IF month \in {4, 6, 9, 11} THEN 30 ELSE 31

\* A first row of k empty cells and then the days 1 .. 7 - k.
FirstRow(k) == [i \in 1..7 |-> IF i <= k THEN None ELSE PyInt(i - k)]

\* The table a call returned: no rows when it returned no table.
ReturnedTable == IF ret.kind = "table" THEN ret.val ELSE <<>>

RECURSIVE DaysOf(_)
\* The days of the rows of a table, in row order, the empty cells left out.
DaysOf(rows) ==
    IF Len(rows) = 0 THEN <<>>
    ELSE SelectSeq(rows[1], LAMBDA c : c.t = "int") \o DaysOf(Tail(rows))

MonthCall == op = "format_month" /\ args.month \in 1..12

\* ------------------------------------------------------------ C1
\* C1: get_ordinal_suffix(n) is "th" whenever n % 100 is 11, 12 or 13.
C1_TeensOfEveryHundred ==
    (op = "get_ordinal_suffix" /\ (args.n % 100) \in {11, 12, 13})
        => ret = ReturnStr(Th)

\* ------------------------------------------------------------ C2
\* C2: get_ordinal_suffix never fails, and when n % 100 is not 11, 12 or 13 it
\* returns "st", "nd", "rd" for a last digit of 1, 2, 3 and "th" for any other.
C2_SuffixByLastDigit ==
    op = "get_ordinal_suffix" =>
        /\ ret.kind = "str"
        /\ (args.n % 100) \notin {11, 12, 13} => ret.val = SuffixByLastDigit(args.n)

C2_Witness ==
    op = "get_ordinal_suffix" /\ args.n = 102 /\ ret.val = <<"n", "d">>

\* ------------------------------------------------------------ C3
\* C3: the table format_month returns for a month 1..12 holds, in row order,
\* exactly the days 1 .. day_count of the Gregorian month.
C3_TableHoldsEveryDay ==
    MonthCall =>
        DaysOf(ReturnedTable) =
            [i \in 1..GregorianDays(locals.year, args.month) |-> PyInt(i)]

\* ------------------------------------------------------------ C4
\* C4: every week row format_month builds has 7 cells, and the number of
\* weeks it computes is ceil((start_weekday + day_count) / 7), whether
\* start_weekday is counted from Monday or, as month_start is, from Sunday.
C4_RowsAndWeekCount ==
    MonthCall =>
        /\ \A i \in 1..Len(locals.rows) : Len(locals.rows[i]) = 7
        /\ locals.weeks \in
             { (MondayFirst(locals.year, args.month)
                  + GregorianDays(locals.year, args.month) + 6) \div 7,
               (SundayFirst(locals.year, args.month)
                  + GregorianDays(locals.year, args.month) + 6) \div 7 }

C6_RowLengthChecked ==
    (op = "format_week" /\ Len(args.days) # 7) => ret.kind = "error"

\* ------------------------------------------------------------ C7
\* C7: format_month fails with an invalid-month error when month is outside
\* 1..12, before any week row is built and before anything is printed.
C7_InvalidMonthFails ==
    (op = "format_month" /\ args.month \notin 1..12) =>
        /\ ret = Raise("IllegalMonthError")
        /\ stdout = <<>>
        /\ locals.rows = <<>>
        /\ locals.first_week = <<>>

C7_Witness ==
    op = "format_month" /\ args.year = 2024 /\ args.month = 13 /\ ret.kind = "error"

\* ------------------------------------------------------------ C8
DayRow(days) ==
    /\ Len(days) = 7
    /\ \A k \in 1..7 : days[k].t = "None" \/ (days[k].t = "int" /\ days[k].v \in 1..31)

\* C8: a row of 7 days and empty cells is rendered as 7 cells of 6 characters
\* between "|"s: a day is its number and suffix right-justified in 4
\* characters with a space on each side, an empty cell is 6 spaces.
C8_RowOfSixWideCells ==
    (op = "format_week" /\ DayRow(args.days)) =>
        /\ ret.kind = "str"
        /\ Len(ret.val) = 50
        /\ \A i \in 0..7 : ret.val[7 * i + 1] = "|"
        /\ \A k \in 1..7 :
             LET cell == SubSeq(ret.val, 7 * k - 5, 7 * k)
                 day == args.days[k]
                 text == Str(day.v) \o DaySuffix(day.v)
             IN /\ Len(cell) = 6
                /\ day.t = "None" => cell = Spaces(6)
                /\ day.t = "int" =>
                     cell = <<" ">> \o Spaces(4 - Len(text)) \o text \o <<" ">>

C8_Witness ==
    /\ op = "format_week" /\ DayRow(args.days)
    /\ args.days[1].t = "None" /\ args.days[5] = PyInt(1) /\ args.days[7] = PyInt(3)
    /\ SubSeq(ret.val, 44, 49) = <<" ", " ", "3", "r", "d", " ">>

\* ------------------------------------------------------------ C9
SameCallAsMemo ==
    /\ MonthCall
    /\ memo.set
    /\ memo.year = args.year
    /\ memo.month = args.month

\* C9 as stated: two format_month calls with the same (year, month) return
\* and print the same, whatever the clock.
C9_SameArgumentsSameOutput ==
    SameCallAsMemo => (memo.ret = ret /\ memo.stdout = stdout)

\* C9 amended: for a year other than 0, two format_month calls with the same
\* (year, month) return and print the same, whatever the clock.
C9_SameOutputForNonzeroYear ==
    (SameCallAsMemo /\ args.year # 0) => (memo.ret = ret /\ memo.stdout = stdout)

\* The same call on two different days.
C9_Witness ==
    SameCallAsMemo /\ args.year # 0 /\ memo.now # now /\ stdout # <<>>

\* ------------------------------------------------------------ C10
\* C10: get_entry_path returns journal/{year}/{month name}/{day}{suffix}{ext}.
C10_ReturnsEntryPath ==
    op = "get_entry_path" =>
        /\ ret.kind = "path"
        /\ ret.val = locals.day_path

====
